---- MODULE Spec2Model ----
(***************************************************************************)
(* Model of the alert pipeline of app.py ("Generate Alerts" handler):      *)
(* normalize -> parse period -> assign season -> melt + year-round         *)
(* override -> merge with thresholds + classify + filter -> priority       *)
(* selection and final sort.                                               *)
(*                                                                         *)
(* Conventions.  A pandas cell that may be NaN is a sequence of length at  *)
(* most one: << >> is NaN, <<v>> is the value v.  Text that the code       *)
(* matches with a regular expression (periodname) is a sequence of         *)
(* one-character strings.  A column name is a sequence of tokens, so that  *)
(* the substring tests on names are tests for a token.  Thresholds and     *)
(* deviations are counted in units of 1/Scale, so that fractional          *)
(* thresholds exist; cases are whole numbers.                              *)
(***************************************************************************)
EXTENDS Integers, Sequences, FiniteSets, TLC

VARIABLES
    pc,                         \* the stage the handler has completed
    cols_present,               \* which required columns the upload has
    st_error,                   \* the message of st.error before st.stop
    new_df,                     \* the wide table
    new_week,                   \* new_df['Week'].iloc[0]
    disease_cols,               \* the disease columns found
    long_new,                   \* the melted table
    threshold_df,               \* the province's threshold table
    current_season,             \* new_df['Season'].iloc[0]
    filtered_thresholds,        \* threshold_df restricted by season
    joined,                     \* the merge, with Alert_Level and Deviation
    alerts,                     \* the candidate alerts (after the filter)
    selected_priority_diseases, \* the multiselect
    top_n,                      \* slider "Top N Non-Priority Alerts"
    min_dev,                    \* slider "Min Deviation for Non-Priority"
    priority_alerts,
    filtered_non_priority,
    final_alerts                \* NaN until the final table exists

vars == <<pc, cols_present, st_error, new_df, new_week, disease_cols, long_new,
          threshold_df, current_season, filtered_thresholds, joined, alerts,
          selected_priority_diseases, top_n, min_dev, priority_alerts,
          filtered_non_priority, final_alerts>>

(***************************************************************************)
(* Bounds of the model.                                                    *)
(***************************************************************************)
MaxRows == 2
MaxCases == 2
MaxLong == 4
Scale == 2

NaN == << >>
\* a text value that does not exist yet (a column not yet added, a name not yet bound)
Unset == "(unset)"
notna(x) == x # NaN
Val(x) == x[1]

Min2(a, b) == IF a <= b THEN a ELSE b

(***************************************************************************)
(* Text: digits, trimming, numeric coercion.                               *)
(***************************************************************************)
Digits == {"0", "1", "2", "3", "4", "5", "6", "7", "8", "9"}

IsDigit(c) == c \in Digits

DigitVal(c) ==
    CASE c = "0" -> 0 [] c = "1" -> 1 [] c = "2" -> 2 [] c = "3" -> 3
      [] c = "4" -> 4 [] c = "5" -> 5 [] c = "6" -> 6 [] c = "7" -> 7
      [] c = "8" -> 8 [] c = "9" -> 9

RECURSIVE to_numeric(_)
\* pd.to_numeric of a string of decimal digits
to_numeric(s) ==
    IF Len(s) = 0 THEN 0
    ELSE 10 * to_numeric(SubSeq(s, 1, Len(s) - 1)) + DigitVal(s[Len(s)])

RECURSIVE strip(_)
\* str.strip(): leading and trailing blanks removed
strip(s) ==
    IF Len(s) = 0 THEN s
    ELSE IF s[1] = " " THEN strip(Tail(s))
    ELSE IF s[Len(s)] = " " THEN strip(SubSeq(s, 1, Len(s) - 1))
    ELSE s

\* s has the literal or digit-class items of tmpl at positions i, i+1, ...
MatchAt(s, i, tmpl) ==
    /\ i >= 1
    /\ i + Len(tmpl) - 1 <= Len(s)
    /\ \A k \in 1..Len(tmpl) :
          IF tmpl[k] = "\\d" THEN IsDigit(s[i + k - 1]) ELSE s[i + k - 1] = tmpl[k]

\* the end of the maximal run of digits that starts at i (i - 1 when there is none)
RECURSIVE DigitRunEnd(_, _)
DigitRunEnd(s, i) ==
    IF i <= Len(s) /\ IsDigit(s[i]) THEN DigitRunEnd(s, i + 1) ELSE i - 1

LeastOf(S) == CHOOSE i \in S : \A j \in S : i <= j

NoMatch == [Year |-> NaN, Week |-> NaN]

\* r'(\d{4})W(\d{1,2})'
Pattern1 == <<"\\d", "\\d", "\\d", "\\d", "W", "\\d">>

\* ' (\d{4})-\d{2}-\d{2} - \d{4}-\d{2}-\d{2}', what follows 'Week (\d+)'
Pattern2Tail == <<" ", "\\d", "\\d", "\\d", "\\d", "-", "\\d", "\\d", "-", "\\d", "\\d",
                  " ", "-", " ",
                  "\\d", "\\d", "\\d", "\\d", "-", "\\d", "\\d", "-", "\\d", "\\d">>

Pattern2Head == <<"W", "e", "e", "k", " ", "\\d">>

\* Series.str.extract(patterns[0]) on one value: re.search, leftmost match, greedy
extract1(s) ==
    LET hits == {i \in 1..Len(s) : MatchAt(s, i, Pattern1)} IN
    IF hits = {} THEN NoMatch
    ELSE LET i == LeastOf(hits)
             e == Min2(DigitRunEnd(s, i + 5), i + 6)
         IN  [Year |-> <<SubSeq(s, i, i + 3)>>, Week |-> <<SubSeq(s, i + 5, e)>>]

\* Series.str.extract(patterns[1]) on one value; the groups are (Week, Year)
extract2(s) ==
    LET hits == {i \in 1..Len(s) :
                    /\ MatchAt(s, i, Pattern2Head)
                    /\ MatchAt(s, DigitRunEnd(s, i + 5) + 1, Pattern2Tail)} IN
    IF hits = {} THEN NoMatch
    ELSE LET i == LeastOf(hits)
             e == DigitRunEnd(s, i + 5)
         IN  [Year |-> <<SubSeq(s, e + 2, e + 5)>>, Week |-> <<SubSeq(s, i + 5, e)>>]

extract(p, s) == IF p = 1 THEN extract1(s) ELSE extract2(s)

\* extracted.notna().all(axis=1).sum() > 0 for pattern p over the column
AnyFullMatch(p, names) ==
    \E i \in 1..Len(names) :
        notna(extract(p, names[i]).Year) /\ notna(extract(p, names[i]).Week)

\* the loop over patterns: 0 when best_extracted stays None
best_pattern(names) ==
    IF AnyFullMatch(1, names) THEN 1
    ELSE IF AnyFullMatch(2, names) THEN 2
    ELSE 0

\* pd.to_numeric(..., errors='coerce') of an extracted cell
coerce(cell) == IF notna(cell) THEN <<to_numeric(Val(cell))>> ELSE NaN

(***************************************************************************)
(* Season                                                                  *)
(***************************************************************************)
assign_season_lax(week) ==
    IF ~notna(week) THEN "Unknown"
    ELSE LET w == Val(week) IN
         IF 10 <= w /\ w < 20 THEN "Spring"
         ELSE IF 21 <= w /\ w <= 35 THEN "Summer"
         ELSE IF 36 <= w /\ w <= 43 THEN "Autumn"
         ELSE "Winter"

assign_season(week) ==
    IF ~notna(week) THEN "Unknown"
    ELSE LET w == Val(week) IN
         IF 10 <= w /\ w <= 20 THEN "Spring"
         ELSE IF 21 <= w /\ w <= 35 THEN "Summer"
         ELSE IF 36 <= w /\ w <= 43 THEN "Autumn"
         ELSE "Winter"

(***************************************************************************)
(* Period labels of the uploads                                            *)
(***************************************************************************)
Y2023 == <<"2", "0", "2", "3">>

WLabel(w) == Y2023 \o <<"W">> \o w

DateRange == <<" ", "2", "0", "2", "4", "-", "0", "4", "-", "0", "8", " ", "-", " ",
               "2", "0", "2", "4", "-", "0", "4", "-", "1", "4">>

WeekLabel(w) == <<"W", "e", "e", "k", " ">> \o w \o DateRange

\* "2023W5", "2023W15", "Week 15 2024-04-08 - 2024-04-14" and "Week 5" (no match)
PeriodLabels ==
    { WLabel(<<"5">>), WLabel(<<"1", "5">>), WeekLabel(<<"1", "5">>),
      <<"W", "e", "e", "k", " ", "5">> }

DigitStrings == {<<a>> : a \in Digits} \cup {<<a, b>> : a \in Digits, b \in Digits}

AllLabels ==
    {WLabel(w) : w \in DigitStrings}
    \cup {WeekLabel(w) : w \in DigitStrings}
    \cup { <<" ">> \o WLabel(<<"4", "0">>) \o <<" ">>,
           WLabel(<<"1", "5", "3">>),
           WeekLabel(<<"1", "0", "0">>),
           <<"x">> \o WLabel(<<"2", "1">>),
           <<"2", "0", "2", "3", "w", "5">>,
           <<"W", "e", "e", "k", " ", "5">>,
           <<"W", "e", "e", "k", " ", "1", "5", " ", "2", "0", "2", "4">>,
           << >> }

(***************************************************************************)
(* Column names                                                            *)
(***************************************************************************)
NC == "(New Cases)"

Cholera == <<"Cholera", NC>>
CholeraOther == <<"Cholera", "(", "Other", ")", NC>>
TyphoidLcOther == <<"Typhoid", "(", "other", ")", NC>>
MeaslesLc == <<"Measles", "(New cases)">>
MalariaLc == <<"Malaria", "(new cases)">>
Remarks == <<"Remarks">>
Anthrax == <<"Anthrax", NC>>
Botulism == <<"Botulism", NC>>
Gonorrhea == <<"Gonorrhea", NC>>

priority_diseases ==
    { <<"Crimean", "Congo", "Hemorrhagic", "Fever", NC>>,
      Anthrax,
      Botulism,
      <<"Diphtheria", "(", "Probable", ")", NC>>,
      <<"Neonatal", "Tetanus", NC>>,
      <<"Acute", "Flaccid", "Paralysis", NC>> }

year_round_diseases ==
    { <<"Acute", "Flaccid", "Paralysis", NC>>, Botulism, Gonorrhea,
      <<"HIV/AIDS", NC>>, <<"Leprosy", NC>>, <<"Nosocomial", "Infections", NC>>,
      <<"Syphilis", NC>>, <<"Visceral", "Leishmaniasis", NC>>,
      <<"Neonatal", "Tetanus", NC>> }

\* 'x' in name, for a literal x that is one token
contains(name, tok) == \E i \in 1..Len(name) : name[i] = tok

is_disease_col(col) == contains(col, "(New Cases)") \/ contains(col, "(New cases)")

\* the data columns of the uploads, in file order
ColumnLists ==
    { <<Remarks>>,
      <<Remarks, MalariaLc>>,
      <<Cholera>>,
      <<Anthrax>>,
      <<Cholera, Remarks, Botulism>>,
      <<CholeraOther, Cholera>>,
      <<Anthrax, Cholera>>,
      <<MeaslesLc, Gonorrhea>>,
      <<TyphoidLcOther, Cholera, MeaslesLc>> }

(***************************************************************************)
(* Organisation columns and Facility_ID                                    *)
(***************************************************************************)
org_cols == 1..6

OrgA == << <<"PK">>, <<"Sindh">>, <<"Karachi">>, <<"East">>, <<"UC1">>, <<"BHU1">> >>
OrgB == << <<"PK">>, <<"Sindh">>, <<"Karachi">>, <<"East">>, NaN, <<"BHU2">> >>

\* fillna('Unknown').astype(str)
fillna_unknown(cell) == IF notna(cell) THEN Val(cell) ELSE "Unknown"

\* the six filled levels joined with '_' (kept as the tuple of the six parts)
Facility_ID(org) == [c \in org_cols |-> fillna_unknown(org[c])]

\* the org columns of an upload of n rows
OrgTables(n) ==
    { [i \in 1..n |-> OrgA], [i \in 1..n |-> OrgB],
      [i \in 1..n |-> IF i = 1 THEN OrgA ELSE OrgB] }

(***************************************************************************)
(* Threshold tables (Facility_ID, Disease, Season, Threshold_95,           *)
(* Threshold_99); Mean and SD are carried through unread and left out.     *)
(***************************************************************************)
Thr(f, d, s, t95, t99) ==
    [Facility_ID |-> f, Disease |-> d, Season |-> s,
     Threshold_95 |-> t95, Threshold_99 |-> t99]

RegularFor(f) ==
    << Thr(f, Cholera, "Winter", <<0>>, <<6>>),
       Thr(f, Cholera, "Spring", <<0>>, <<2>>),
       Thr(f, Cholera, "Summer", <<0>>, <<1>>),
       Thr(f, CholeraOther, "Winter", <<0>>, <<1>>),
       Thr(f, TyphoidLcOther, "Winter", <<1>>, <<2>>),
       Thr(f, MeaslesLc, "Winter", <<0>>, <<4>>),
       Thr(f, Anthrax, "Winter", <<0>>, <<4>>),
       Thr(f, Anthrax, "Spring", <<0>>, <<0>>),
       Thr(f, Botulism, "Year-Round", <<1>>, <<2>>),
       Thr(f, Gonorrhea, "Year-Round", <<0>>, <<1>>) >>

\* a table with a missing Threshold_95, a missing Threshold_99, a repeated key, a
\* seasonal record of a year-round disease and a Threshold_99 under its Threshold_95
IrregularTable ==
    << Thr(Facility_ID(OrgA), Cholera, "Winter", NaN, <<1>>),
       Thr(Facility_ID(OrgA), Cholera, "Spring", <<0>>, <<2>>),
       Thr(Facility_ID(OrgA), Cholera, "Spring", <<2>>, NaN),
       Thr(Facility_ID(OrgA), Anthrax, "Winter", <<2>>, NaN),
       Thr(Facility_ID(OrgA), Botulism, "Winter", <<0>>, <<1>>),
       Thr(Facility_ID(OrgA), Gonorrhea, "Year-Round", <<3>>, <<1>>),
       Thr(Facility_ID(OrgA), MeaslesLc, "Winter", <<0>>, <<0>>) >>

ThresholdTables ==
    { RegularFor(Facility_ID(OrgA)) \o RegularFor(Facility_ID(OrgB)),
      IrregularTable }

(***************************************************************************)
(* Table operations                                                        *)
(***************************************************************************)
\* the row new_df holds for an upload row once Facility_ID is built
normalize_row(org) ==
    [Facility_ID |-> Facility_ID(org), periodname |-> NaN, Year |-> NaN,
     Week |-> NaN, Season |-> Unset, Cases |-> << >>]

\* periodname stripped, Year and Week extracted with pattern p and coerced
parse_rows(df, labels, p) ==
    [i \in 1..Len(df) |->
        LET name == strip(labels[i])
            x == extract(p, name)
        IN  [df[i] EXCEPT !.periodname = <<name>>,
                          !.Year = coerce(x.Year),
                          !.Week = coerce(x.Week)]]

HasYearWeek(r) == notna(r.Year) /\ notna(r.Week)

\* new_df.dropna(subset=['Year', 'Week'])
dropna(df) == SelectSeq(df, HasYearWeek)

\* new_df['Week'].apply(assign_season)
season_column(df) == [i \in 1..Len(df) |-> [df[i] EXCEPT !.Season = assign_season(df[i].Week)]]

\* fillna(0).astype(int) of one cell of a disease column
fillna_zero(cell) == IF notna(cell) THEN Val(cell) ELSE 0

\* pd.melt(id_vars=[Facility_ID, Season], value_vars=cols): column by column, rows in order
melt(df, cols) ==
    [k \in 1..(Len(df) * Len(cols)) |->
        LET j == ((k - 1) \div Len(df)) + 1
            i == ((k - 1) % Len(df)) + 1
        IN  [Facility_ID |-> df[i].Facility_ID, Season |-> df[i].Season,
             Disease |-> cols[j], Cases |-> df[i].Cases[j]]]

year_round_none(df) == df

\* long_new.loc[long_new['Disease'].isin(year_round_diseases), 'Season'] = 'Year-Round'
year_round_override(df) ==
    [k \in 1..Len(df) |->
        IF df[k].Disease \in year_round_diseases
        THEN [df[k] EXCEPT !.Season = "Year-Round"]
        ELSE df[k]]

restrict_none(tbl, season) == tbl

\* threshold_df[threshold_df['Season'].isin([current_season, 'Year-Round'])]
restrict_thresholds(tbl, season) ==
    LET Keep(t) == t.Season \in {season, "Year-Round"} IN SelectSeq(tbl, Keep)

Alert_Level_95_first(cases, t95, t99) ==
    IF notna(t95) /\ cases * Scale > Val(t95) THEN "Alert"
    ELSE IF notna(t99) /\ cases * Scale > Val(t99) THEN "High Alert"
    ELSE "Normal"

\* the nested np.where of Alert_Level
Alert_Level(cases, t95, t99) ==
    IF notna(t99) /\ cases * Scale > Val(t99) THEN "High Alert"
    ELSE IF notna(t95) /\ cases * Scale > Val(t95) THEN "Alert"
    ELSE "Normal"

\* the nested np.where of Deviation, in units of 1/Scale
Deviation(level, cases, t95, t99) ==
    IF level = "High Alert" THEN cases * Scale - Val(t99)
    ELSE IF level = "Alert" THEN cases * Scale - Val(t95)
    ELSE 0

classified(l, t95, t99) ==
    LET level == Alert_Level(l.Cases, t95, t99) IN
    [Facility_ID |-> l.Facility_ID, Disease |-> l.Disease, Season |-> l.Season,
     Cases |-> l.Cases, Threshold_95 |-> t95, Threshold_99 |-> t99,
     Alert_Level |-> level, Deviation |-> Deviation(level, l.Cases, t95, t99)]

\* the rows a left row gives in merge(how='left') on Facility_ID, Disease, Season
join_row(l, right) ==
    LET Same(t) == /\ t.Facility_ID = l.Facility_ID
                   /\ t.Disease = l.Disease
                   /\ t.Season = l.Season
        m == SelectSeq(right, Same)
    IN  IF m = << >> THEN << classified(l, NaN, NaN) >>
        ELSE [k \in 1..Len(m) |-> classified(l, m[k].Threshold_95, m[k].Threshold_99)]

RECURSIVE merge_classify(_, _)
\* long_new.merge(filtered_thresholds, how='left') with Alert_Level and Deviation
merge_classify(left, right) ==
    IF left = << >> THEN << >>
    ELSE join_row(Head(left), right) \o merge_classify(Tail(left), right)

is_candidate_with_other(r) ==
    /\ r.Alert_Level # "Normal"
    /\ notna(r.Threshold_95)
    /\ r.Deviation >= Scale

\* the "Filter alerts" mask
is_candidate(r) ==
    /\ r.Alert_Level # "Normal"
    /\ notna(r.Threshold_95)
    /\ r.Deviation >= Scale
    /\ ~contains(r.Disease, "Other")

with_disease_in_first(df, sel) ==
    LET In(r) == r.Disease \in sel
        found == SelectSeq(df, In)
    IN  SubSeq(found, 1, Min2(1, Len(found)))

\* alerts[alerts['Disease'].isin(sel)] and its complement
with_disease_in(df, sel) == LET In(r) == r.Disease \in sel IN SelectSeq(df, In)
with_disease_not_in(df, sel) == LET Out(r) == r.Disease \notin sel IN SelectSeq(df, Out)

\* df[df['Deviation'] >= m]
with_min_deviation(df, m) == LET Enough(r) == r.Deviation >= m IN SelectSeq(df, Enough)

Remove(df, i) == SubSeq(df, 1, i - 1) \o SubSeq(df, i + 1, Len(df))

MaxDeviation(df) == CHOOSE d \in {df[i].Deviation : i \in 1..Len(df)} :
                        \A i \in 1..Len(df) : df[i].Deviation <= d

RECURSIVE stable_sort(_)
\* the descending order that keeps equal deviations in arrival order
stable_sort(df) ==
    IF df = << >> THEN << >>
    ELSE LET i == LeastOf({k \in 1..Len(df) : df[k].Deviation = MaxDeviation(df)})
         IN  <<df[i]>> \o stable_sort(Remove(df, i))

head_one_more(df, n) == SubSeq(df, 1, Min2(n + 1, Len(df)))

head_largest(df, n) == SubSeq(stable_sort(df), 1, Min2(n, Len(df)))

\* df.head(n)
head(df, n) == SubSeq(df, 1, Min2(n, Len(df)))

sort_none(df) == {df}

RECURSIVE sort_values(_)
\* sort_values('Deviation', ascending=False) with the default kind='quicksort', which
\* is not stable: every descending order of the rows is a possible result
sort_values(df) ==
    IF df = << >> THEN {<< >>}
    ELSE UNION { { <<df[i]>> \o rest : rest \in sort_values(Remove(df, i)) } :
                 i \in {k \in 1..Len(df) : df[k].Deviation = MaxDeviation(df)} }

(***************************************************************************)
(* The inputs of a run                                                     *)
(***************************************************************************)
\* a cell of a disease column of the upload
CellValues == {NaN} \cup {<<c>> : c \in 0..MaxCases}

\* the multiselect: the default, and Botulism deselected
SelectedChoices == {priority_diseases, priority_diseases \ {Botulism}}

\* the positions of the min-deviation slider that differ in effect: 1.0 and the
\* deviations present (the slider runs from 1.0 to the largest of them)
MinDevChoices(df) == {Scale} \cup {df[i].Deviation : i \in 1..Len(df)}

MaxWeek == 60

\* the arguments assign_season is applied to
WeekInputs == {NaN} \cup {<<w>> : w \in 0..MaxWeek}

(***************************************************************************)
(* The handler of "Generate Alerts", stage by stage                        *)
(***************************************************************************)
Init ==
    /\ pc = "start"
    /\ cols_present \in [org : BOOLEAN, period : BOOLEAN]
    /\ st_error = NaN
    /\ new_df = << >>
    /\ new_week = NaN
    /\ disease_cols = << >>
    /\ long_new = << >>
    /\ threshold_df = << >>
    /\ current_season = Unset
    /\ filtered_thresholds = << >>
    /\ joined = << >>
    /\ alerts = << >>
    /\ selected_priority_diseases = {}
    /\ top_n = NaN
    /\ min_dev = NaN
    /\ priority_alerts = << >>
    /\ filtered_non_priority = << >>
    /\ final_alerts = NaN

\* st.error(msg); st.stop()
stop(msg) ==
    /\ pc' = "stopped"
    /\ st_error' = <<msg>>

NormalizeLenient ==
    /\ pc = "start"
    /\ \E n \in 0..MaxRows : \E orgs \in OrgTables(n) :
          new_df' = [i \in 1..n |-> normalize_row(orgs[i])]
    /\ pc' = "normalized"
    /\ UNCHANGED <<cols_present, st_error, new_week, disease_cols, long_new,
                   threshold_df, current_season, filtered_thresholds, joined, alerts,
                   selected_priority_diseases, top_n, min_dev, priority_alerts,
                   filtered_non_priority, final_alerts>>

\* lines 117-133: org columns filled, Facility_ID built, or the run stops
Normalize ==
    /\ pc = "start"
    /\ IF cols_present.org
       THEN \E n \in 0..MaxRows : \E orgs \in OrgTables(n) :
               /\ new_df' = [i \in 1..n |-> normalize_row(orgs[i])]
               /\ pc' = "normalized"
               /\ st_error' = st_error
       ELSE /\ stop("Missing required org columns.")
            /\ new_df' = new_df
    /\ UNCHANGED <<cols_present, new_week, disease_cols, long_new, threshold_df,
                   current_season, filtered_thresholds, joined, alerts,
                   selected_priority_diseases, top_n, min_dev, priority_alerts,
                   filtered_non_priority, final_alerts>>

\* lines 135-167, the periodname column read from the label set L
ParsePeriodFrom(L) ==
    /\ pc = "normalized"
    /\ IF ~cols_present.period
       THEN /\ stop("No 'periodname' column.")
            /\ UNCHANGED <<new_df, new_week>>
       ELSE \E labels \in [1..Len(new_df) -> L] :
               LET names == [i \in 1..Len(new_df) |-> strip(labels[i])]
                   p == best_pattern(names)
               IN  IF p = 0
                   THEN /\ stop("No pattern matched periodname.")
                        /\ UNCHANGED <<new_df, new_week>>
                   ELSE /\ new_df' = dropna(parse_rows(new_df, labels, p))
                        /\ new_week' = new_df'[1].Week
                        /\ pc' = "parsed"
                        /\ st_error' = st_error
    /\ UNCHANGED <<cols_present, disease_cols, long_new, threshold_df,
                   current_season, filtered_thresholds, joined, alerts,
                   selected_priority_diseases, top_n, min_dev, priority_alerts,
                   filtered_non_priority, final_alerts>>

ParsePeriod == ParsePeriodFrom(PeriodLabels)

ParseAnyPeriod == ParsePeriodFrom(AllLabels)

\* lines 169-184
AssignSeason ==
    /\ pc = "parsed"
    /\ new_df' = season_column(new_df)
    /\ pc' = "seasoned"
    /\ UNCHANGED <<cols_present, st_error, new_week, disease_cols, long_new,
                   threshold_df, current_season, filtered_thresholds, joined, alerts,
                   selected_priority_diseases, top_n, min_dev, priority_alerts,
                   filtered_non_priority, final_alerts>>

\* lines 186-204: disease columns, melt, year-round override
Reshape ==
    /\ pc = "seasoned"
    /\ \E columns \in ColumnLists :
          LET dc == SelectSeq(columns, is_disease_col) IN
          IF Len(dc) = 0
          THEN /\ stop("No disease columns found.")
               /\ UNCHANGED <<new_df, disease_cols, long_new>>
          ELSE /\ Len(new_df) * Len(dc) <= MaxLong
               /\ \E cells \in [1..Len(new_df) -> [1..Len(dc) -> CellValues]] :
                     /\ new_df' = [i \in 1..Len(new_df) |->
                                     [new_df[i] EXCEPT !.Cases =
                                         [j \in 1..Len(dc) |-> fillna_zero(cells[i][j])]]]
                     /\ disease_cols' = dc
                     /\ long_new' = year_round_override(melt(new_df', dc))
                     /\ pc' = "reshaped"
                     /\ st_error' = st_error
    /\ UNCHANGED <<cols_present, new_week, threshold_df, current_season,
                   filtered_thresholds, joined, alerts, selected_priority_diseases,
                   top_n, min_dev, priority_alerts, filtered_non_priority,
                   final_alerts>>

\* lines 206-227: thresholds of the season, merge, Alert_Level, Deviation, filter
MatchClassify ==
    /\ pc = "reshaped"
    /\ \E tbl \in ThresholdTables :
          /\ threshold_df' = tbl
          /\ current_season' = new_df[1].Season
          /\ filtered_thresholds' = restrict_thresholds(tbl, current_season')
          /\ joined' = merge_classify(long_new, filtered_thresholds')
          /\ alerts' = SelectSeq(joined', is_candidate)
    /\ pc' = "classified"
    /\ UNCHANGED <<cols_present, st_error, new_df, new_week, disease_cols, long_new,
                   selected_priority_diseases, top_n, min_dev, priority_alerts,
                   filtered_non_priority, final_alerts>>

\* lines 229-241: priority split, sliders, head, concat, sort
Select ==
    /\ pc = "classified"
    /\ \E sel \in SelectedChoices :
          LET non_priority_alerts == with_disease_not_in(alerts, sel) IN
          \E n \in 0..Len(non_priority_alerts) :
          \E m \in MinDevChoices(non_priority_alerts) :
              /\ selected_priority_diseases' = sel
              /\ top_n' = n
              /\ min_dev' = m
              /\ priority_alerts' = with_disease_in(alerts, sel)
              /\ filtered_non_priority' =
                     head(with_min_deviation(non_priority_alerts, m), n)
              /\ \E sorted \in sort_values(priority_alerts' \o filtered_non_priority') :
                     final_alerts' = <<sorted>>
    /\ pc' = "selected"
    /\ UNCHANGED <<cols_present, st_error, new_df, new_week, disease_cols, long_new,
                   threshold_df, current_season, filtered_thresholds, joined, alerts>>

Next ==
    \/ Normalize
    \/ ParsePeriod
    \/ AssignSeason
    \/ Reshape
    \/ MatchClassify
    \/ Select

Spec == Init /\ [][Next]_vars

(***************************************************************************)
(* Period parsing and assign_season on their own: one upload row whose     *)
(* label ranges over AllLabels, and assign_season applied to WeekInputs.   *)
(***************************************************************************)
InitSeason ==
    /\ cols_present = [org |-> TRUE, period |-> TRUE]
    /\ \/ /\ pc = "normalized"
          /\ new_df = << normalize_row(OrgA) >>
          /\ new_week = NaN
       \/ /\ pc = "parsed"
          /\ \E w \in WeekInputs :
                /\ new_df = << [normalize_row(OrgA) EXCEPT !.Week = w] >>
                /\ new_week = w
    /\ st_error = NaN
    /\ disease_cols = << >>
    /\ long_new = << >>
    /\ threshold_df = << >>
    /\ current_season = Unset
    /\ filtered_thresholds = << >>
    /\ joined = << >>
    /\ alerts = << >>
    /\ selected_priority_diseases = {}
    /\ top_n = NaN
    /\ min_dev = NaN
    /\ priority_alerts = << >>
    /\ filtered_non_priority = << >>
    /\ final_alerts = NaN

NextSeason ==
    \/ ParseAnyPeriod
    \/ AssignSeason

SpecSeason == InitSeason /\ [][NextSeason]_vars

(***************************************************************************)
(* Properties                                                              *)
(***************************************************************************)
\* the final table, empty while there is none
FinalTable == IF notna(final_alerts) THEN Val(final_alerts) ELSE << >>

Rows(df) == {df[k] : k \in 1..Len(df)}

Occurrences(df, r) == Cardinality({k \in 1..Len(df) : df[k] = r})

SameRows(a, b) ==
    /\ Len(a) = Len(b)
    /\ \A r \in Rows(a) \cup Rows(b) : Occurrences(a, r) = Occurrences(b, r)

SortedDescending(df) ==
    \A i \in 1..(Len(df) - 1) : df[i].Deviation >= df[i + 1].Deviation

Exceeds(cases, t) == notna(t) /\ cases * Scale > Val(t)

\* C1: every joined row has exactly one level: High Alert when Threshold_99 is
\* present and exceeded, else Alert when Threshold_95 is present and exceeded, else
\* Normal; Deviation is Cases - Threshold_99, Cases - Threshold_95 or 0 accordingly
\* (12 against 8 and 15 is an Alert of deviation 4, 20 a High Alert of deviation 5).
C1_Classification ==
    /\ \A r \in Rows(joined) :
          /\ r.Alert_Level \in {"High Alert", "Alert", "Normal"}
          /\ r.Alert_Level = "High Alert" <=> Exceeds(r.Cases, r.Threshold_99)
          /\ r.Alert_Level = "Alert" <=>
                 (~Exceeds(r.Cases, r.Threshold_99) /\ Exceeds(r.Cases, r.Threshold_95))
          /\ r.Alert_Level = "High Alert" =>
                 r.Deviation = r.Cases * Scale - Val(r.Threshold_99)
          /\ r.Alert_Level = "Alert" =>
                 r.Deviation = r.Cases * Scale - Val(r.Threshold_95)
          /\ r.Alert_Level = "Normal" => r.Deviation = 0
    /\ Alert_Level(12, <<8 * Scale>>, <<15 * Scale>>) = "Alert"
    /\ Deviation("Alert", 12, <<8 * Scale>>, <<15 * Scale>>) = 4 * Scale
    /\ Alert_Level(20, <<8 * Scale>>, <<15 * Scale>>) = "High Alert"
    /\ Deviation("High Alert", 20, <<8 * Scale>>, <<15 * Scale>>) = 5 * Scale

\* a run whose merge has a High Alert that also exceeds Threshold_95, an Alert, a
\* Normal row with thresholds and a row without a threshold record
C1_Witness ==
    /\ pc = "classified"
    /\ \E r \in Rows(joined) :
          r.Alert_Level = "High Alert" /\ Exceeds(r.Cases, r.Threshold_95)
    /\ \E r \in Rows(joined) : r.Alert_Level = "Alert" /\ notna(r.Threshold_99)
    /\ \E r \in Rows(joined) : r.Alert_Level = "Normal" /\ notna(r.Threshold_95)
    /\ \E r \in Rows(joined) : ~notna(r.Threshold_95) /\ ~notna(r.Threshold_99)

\* C2: every candidate alert, and so every row of the final table, is not Normal, has
\* Threshold_95, has Deviation >= 1 and has no "Other" in its disease name; a row
\* without a threshold record and a "Cholera (Other)" row are never among them.
C2_CandidateFilter ==
    /\ \A r \in Rows(alerts) \cup Rows(FinalTable) :
          /\ r.Alert_Level # "Normal"
          /\ notna(r.Threshold_95)
          /\ r.Deviation >= Scale
          /\ ~contains(r.Disease, "Other")
          /\ r.Disease # CholeraOther
    /\ \A r \in Rows(joined) :
          (~notna(r.Threshold_95) /\ ~notna(r.Threshold_99)) =>
              r \notin Rows(alerts) \cup Rows(FinalTable)
    /\ Rows(FinalTable) \subseteq Rows(alerts)

\* a finished run with alerts whose merge had a "Cholera (Other)" row over its
\* thresholds by 1 or more and a row without a threshold record
C2_Witness ==
    /\ pc = "selected"
    /\ FinalTable # << >>
    /\ \E r \in Rows(joined) :
          /\ r.Disease = CholeraOther
          /\ r.Alert_Level # "Normal"
          /\ notna(r.Threshold_95)
          /\ r.Deviation >= Scale
    /\ \E r \in Rows(joined) : ~notna(r.Threshold_95) /\ r.Cases > 0

IsPriority(r) == r.Disease \in selected_priority_diseases

PriorityCount(df) == Cardinality({k \in 1..Len(df) : IsPriority(df[k])})

\* C3: every candidate alert of a selected priority disease is in the final table,
\* whatever the count cap and the minimum deviation: as many priority alerts in the
\* output as among the candidates.
C3_PriorityKept ==
    pc = "selected" =>
        /\ PriorityCount(FinalTable) = PriorityCount(alerts)
        /\ \A r \in Rows(alerts) :
              IsPriority(r) => Occurrences(FinalTable, r) = Occurrences(alerts, r)

\* a finished run with the cap at 0 and two priority alerts, one of them under the
\* minimum deviation
C3_Witness ==
    /\ pc = "selected"
    /\ top_n = 0
    /\ PriorityCount(alerts) >= 2
    /\ PriorityCount(alerts) < Len(alerts)
    /\ \E r \in Rows(alerts) : IsPriority(r) /\ r.Deviation < min_dev

\* C4: the final table has at most top_n non-priority rows, each with
\* Deviation >= min_dev.
C4_NonPriorityCapped ==
    pc = "selected" =>
        /\ Len(FinalTable) - PriorityCount(FinalTable) <= top_n
        /\ \A r \in Rows(FinalTable) : ~IsPriority(r) => r.Deviation >= min_dev

\* a finished run where the cap cuts and the minimum deviation filters
C4_Witness ==
    /\ pc = "selected"
    /\ top_n >= 1
    /\ Len(FinalTable) - PriorityCount(FinalTable) = top_n
    /\ Cardinality({k \in 1..Len(alerts) :
                       ~IsPriority(alerts[k]) /\ alerts[k].Deviation >= min_dev}) > top_n
    /\ \E r \in Rows(alerts) : ~IsPriority(r) /\ r.Deviation < min_dev

\* C5 as stated: the final table is in non-increasing order of Deviation and rows of
\* equal Deviation keep the order of the concatenated table (a stable sort).
C5_StableOrder ==
    pc = "selected" =>
        FinalTable = stable_sort(priority_alerts \o filtered_non_priority)

\* C5 as amended: the final table holds exactly the rows of the concatenated table, in
\* non-increasing order of Deviation.
C5_SortedPermutation ==
    pc = "selected" =>
        /\ SortedDescending(FinalTable)
        /\ SameRows(FinalTable, priority_alerts \o filtered_non_priority)

\* a finished run whose concatenated table was not in order and has a tie
C5_Witness ==
    /\ pc = "selected"
    /\ ~SortedDescending(priority_alerts \o filtered_non_priority)
    /\ \E i \in 1..(Len(FinalTable) - 1) :
          /\ FinalTable[i].Deviation = FinalTable[i + 1].Deviation
          /\ FinalTable[i] # FinalTable[i + 1]

\* the wide row a long row comes from
SourceRow(k) == new_df[((k - 1) % Len(new_df)) + 1]

AfterReshape == pc \in {"reshaped", "classified", "selected"}

\* C6: in the long table every row of a year-round disease has season Year-Round,
\* whatever its week; every other row has the season assigned from its row's week.
C6_YearRound ==
    AfterReshape =>
        \A k \in 1..Len(long_new) :
            IF long_new[k].Disease \in year_round_diseases
            THEN long_new[k].Season = "Year-Round"
            ELSE long_new[k].Season = SourceRow(k).Season

\* a long table with a year-round disease from a Winter week and from a Spring week,
\* next to a disease that is not year-round
C6_Witness ==
    /\ pc = "reshaped"
    /\ \E k \in 1..Len(long_new) :
          long_new[k].Disease = Botulism /\ SourceRow(k).Season = "Winter"
    /\ \E k \in 1..Len(long_new) :
          long_new[k].Disease = Botulism /\ SourceRow(k).Season = "Spring"
    /\ \E k \in 1..Len(long_new) : long_new[k].Season = "Winter"

AfterMatch == pc \in {"classified", "selected"}

\* C7 as stated: one season per run, that of the first parsed row: every long row of a
\* disease that is not year-round carries it, and it restricts the threshold table.
C7_SingleSeason ==
    AfterMatch =>
        /\ current_season = assign_season(new_week)
        /\ \A r \in Rows(long_new) :
              r.Disease \notin year_round_diseases => r.Season = current_season
        /\ \A t \in Rows(filtered_thresholds) :
              t.Season \in {current_season, "Year-Round"}

\* C7 as amended: the season of the first remaining row restricts the threshold table;
\* a long row of a disease that is not year-round carries the season of its own row's
\* week, which is the run's season when the weeks are in the same band.
C7_SeasonPerRow ==
    AfterMatch =>
        /\ current_season = assign_season(new_week)
        /\ current_season = new_df[1].Season
        /\ \A k \in 1..Len(long_new) :
              long_new[k].Disease \notin year_round_diseases =>
                  /\ long_new[k].Season = assign_season(SourceRow(k).Week)
                  /\ assign_season(SourceRow(k).Week) = assign_season(new_week) =>
                         long_new[k].Season = current_season
        /\ filtered_thresholds =
               LET InSeason(t) == t.Season \in {current_season, "Year-Round"}
               IN  SelectSeq(threshold_df, InSeason)

\* an upload of a Winter week and a Spring week, matched against a table that has
\* records of other seasons
C7_Witness ==
    /\ pc = "classified"
    /\ current_season = "Winter"
    /\ \E r \in Rows(long_new) : r.Season = "Spring"
    /\ Len(filtered_thresholds) < Len(threshold_df)
    /\ \E r \in Rows(joined) : r.Season = "Winter" /\ notna(r.Threshold_95)

Untouched(v) == v = << >>

NothingAfterNormalize ==
    /\ new_week = NaN
    /\ \A r \in Rows(new_df) : r.Week = NaN /\ r.Season = Unset

NothingAfterSeason ==
    /\ Untouched(disease_cols) /\ Untouched(long_new)
    /\ \A r \in Rows(new_df) : r.Cases = << >>

NothingAfterReshape ==
    /\ Untouched(threshold_df) /\ Untouched(filtered_thresholds)
    /\ Untouched(joined) /\ Untouched(alerts) /\ current_season = Unset

NoAlertTable ==
    /\ final_alerts = NaN
    /\ Untouched(priority_alerts) /\ Untouched(filtered_non_priority)
    /\ top_n = NaN /\ min_dev = NaN

StageAfter(stage) ==
    CASE stage = "start" -> "normalized"
      [] stage = "normalized" -> "parsed"
      [] stage = "parsed" -> "seasoned"
      [] stage = "seasoned" -> "reshaped"
      [] stage = "reshaped" -> "classified"
      [] stage = "classified" -> "selected"
      [] OTHER -> "none"

FailFastState ==
    /\ ~cols_present.org => pc \in {"start", "stopped"}
    /\ ~cols_present.period => pc \in {"start", "normalized", "stopped"}
    /\ pc \in {"parsed", "seasoned", "reshaped", "classified", "selected"} =>
          new_df # << >> /\ notna(new_week)
    /\ AfterReshape => disease_cols # << >>
    /\ pc # "stopped" <=> st_error = NaN
    /\ pc = "stopped" =>
          /\ NoAlertTable
          /\ NothingAfterReshape
          /\ NothingAfterSeason
          /\ st_error = <<"Missing required org columns.">> =>
                ~cols_present.org /\ new_df = << >>
          /\ st_error = <<"No 'periodname' column.">> =>
                cols_present.org /\ ~cols_present.period /\ NothingAfterNormalize
          /\ st_error = <<"No pattern matched periodname.">> =>
                cols_present.org /\ cols_present.period /\ NothingAfterNormalize
          /\ st_error = <<"No disease columns found.">> =>
                \A r \in Rows(new_df) : r.Season # Unset
    /\ pc \in {"start", "normalized", "parsed", "seasoned"} =>
          NothingAfterSeason /\ NothingAfterReshape /\ NoAlertTable
    /\ pc \in {"start", "normalized"} => NothingAfterNormalize
    /\ pc = "reshaped" => NothingAfterReshape /\ NoAlertTable
    /\ pc = "classified" => NoAlertTable
    /\ pc = "selected" <=> notna(final_alerts)

FailFastStep ==
    /\ pc # "stopped"
    /\ pc' = StageAfter(pc) \/ pc' = "stopped"
    /\ pc' = "stopped" => pc \in {"start", "normalized", "seasoned"}

\* C8: a run whose upload lacks an org column, the periodname column, a matching
\* period label or a disease column stops at that stage: no later stage runs and no
\* alert table exists; otherwise the stages run in the order normalize, parse period,
\* assign season, reshape, match and classify, select.
C8_FailFast == []FailFastState /\ [][FailFastStep]_vars

\* a run stopped at the period stage and one stopped at the reshape stage exist; this
\* is the one stopped because no label matched a pattern
C8_Witness ==
    /\ pc = "stopped"
    /\ st_error = <<"No pattern matched periodname.">>
    /\ Len(new_df) = MaxRows

Band(w) ==
    IF w \in 10..20 THEN "Spring"
    ELSE IF w \in 21..35 THEN "Summer"
    ELSE IF w \in 36..43 THEN "Autumn"
    ELSE "Winter"

\* C9: the season is a total function of the week: 10..20 Spring, 21..35 Summer,
\* 36..43 Autumn, any other number Winter, no week "Unknown"; "2023W5" is week 5 and
\* Winter, "Week 15 2024-04-08 - 2024-04-14" is week 15 and Spring.
C9_Season ==
    /\ pc = "seasoned" =>
          \A r \in Rows(new_df) :
              /\ r.Season \in {"Spring", "Summer", "Autumn", "Winter", "Unknown"}
              /\ r.Season = IF notna(r.Week) THEN Band(Val(r.Week)) ELSE "Unknown"
    /\ pc \in {"parsed", "seasoned"} =>
          \A r \in Rows(new_df) :
              /\ r.periodname = <<WLabel(<<"5">>)>> => r.Week = <<5>> /\ r.Year = <<2023>>
              /\ r.periodname = <<WeekLabel(<<"1", "5">>)>> =>
                     r.Week = <<15>> /\ r.Year = <<2024>>
              /\ \A w \in DigitStrings :
                     r.periodname \in {<<WLabel(w)>>, <<WeekLabel(w)>>} =>
                         r.Week = <<to_numeric(w)>>

\* the label "Week 15 2024-04-08 - 2024-04-14" parsed and given its season
C9_Witness ==
    /\ pc = "seasoned"
    /\ new_df[1].periodname = <<WeekLabel(<<"1", "5">>)>>
    /\ new_df[1].Week = <<15>>
    /\ new_df[1].Season = "Spring"

\* C10: the non-priority alerts kept are the first top_n, in candidate order, of the
\* non-priority candidates with Deviation >= min_dev: a prefix, cut before the final
\* sort, and not the top_n largest deviations.
C10_PrefixKept ==
    pc = "selected" =>
        LET Kept(r) == ~IsPriority(r) /\ r.Deviation >= min_dev
            eligible == SelectSeq(alerts, Kept)
        IN  /\ Len(filtered_non_priority) = Min2(top_n, Len(eligible))
            /\ \A k \in 1..Len(filtered_non_priority) :
                  filtered_non_priority[k] = eligible[k]

\* a finished run that kept a non-priority alert and dropped a later one of larger
\* deviation
C10_Witness ==
    /\ pc = "selected"
    /\ filtered_non_priority # << >>
    /\ \E r \in Rows(alerts) :
          /\ ~IsPriority(r)
          /\ r \notin Rows(filtered_non_priority)
          /\ \E q \in Rows(filtered_non_priority) : q.Deviation < r.Deviation

====
